---------------------------- MODULE Spec2Model ----------------------------
(* Model of ULTIMA_SYSTEM's integrations module (src/integrations.py):      *)
(* the provider adapters (Ollama, Dolphin, Gemini, Claude, OpenAI) and the  *)
(* UltimaSystem facade with its provider-selection fallback chain.          *)
(*                                                                          *)
(* A call is one atomic action: it draws its inputs (arguments and the      *)
(* behaviour of the external backend), runs the whole method and leaves the *)
(* outcome in the call-record variables; Return hands control back to the   *)
(* caller.  Optional[str] values are strings, with None for Python's None.  *)
EXTENDS Integers, Sequences, FiniteSets, TLC

-----------------------------------------------------------------------------
(* Bounds of the model *)

\* number of distinct non-empty texts a backend can answer with
NumTexts == 2
\* clock values (epoch milliseconds, scaled) range over 1..MaxTime
MaxTime == 2
\* longest chat history handed to GeminiIntegration.chat
MaxMsgs == 2
\* longest .env file read by a constructor, in lines
MaxLines == 2
\* longest list of installed models the Ollama backend reports
MaxModels == 2
\* number of concurrent generate_async calls
NumTasks == 2

-----------------------------------------------------------------------------
(* Values *)

\* Python's None (the "absent" result)
None == "<None>"

\* behaviours of a backend call that are not a text answer
Raise == "<raise>"
NoField == "<nofield>"
NoBackend == "<nobackend>"

TextPool == <<"hello", "hi", "world", "ok">>
Texts == {TextPool[i] : i \in 1..NumTexts}

\* what one backend round-trip can do: raise (SDK error, timeout), answer
\* without the text field, answer with the empty string, answer with a text
Backend == {Raise, NoField, ""} \cup Texts

\* the five adapters UltimaSystem.__init__ constructs
Providers == {"ollama", "dolphin", "gemini", "claude", "openai"}

\* keys of the `providers` dispatch table of UltimaSystem.generate
GenProviders == {"ollama", "gemini", "claude", "openai"}

\* a priority list that tries the local backend first
AutoOrderLocalFirst == <<"ollama", "claude", "openai", "gemini">>

\* the priority list of auto mode
AutoOrder == <<"claude", "openai", "gemini", "ollama">>

\* provider arguments tried on the facade
ProviderArgs == GenProviders \cup {"auto", "dolphin", "nonexistent-provider"}

\* keyword options a caller may pass to the facade (documented: model, ...)
KwargsChoices == SUBSET {"model"}

\* messages printed by the code
UnknownProviderMsg == "[ERROR] Unknown provider"
NoProviderMsg == "[ERROR] No provider available for generation"
ScriptNotFoundMsg == "[ERROR] Dolphin script not found"
ScriptErrorMsg == "[ERROR] Dolphin script error"

VARIABLES
    available,    \* adapter name -> its `available` flag
    credentials,  \* ClaudeIntegration.credentials
    tempFile,     \* TRUE iff <dolphin_path>/temp_idea.json exists on disk
    op,           \* the call that has just run ("none" when idle)
    args,         \* its inputs
    result,       \* its return value
    raised,       \* TRUE iff it raised instead of returning
    invoked,      \* providers whose _gen_* helper the facade called, in order
    sdkCalls,     \* providers whose backend client was called, in order
    spawned,      \* TRUE iff a subprocess launch was attempted
    contents,     \* what GeminiIntegration.chat built for the backend
    log,          \* messages printed by the call
    tasks         \* the generate_async coroutines in progress

vars == <<available, credentials, tempFile, op, args, result, raised,
          invoked, sdkCalls, spawned, contents, log, tasks>>

\* what a synchronous call on the constructed system leaves alone
env == <<available, credentials, tasks>>

\* the coroutines: none has been started
Tasks == 1..NumTasks
IdleTask == [pc |-> "idle"]
NoTasks == [t \in Tasks |-> IdleTask]

-----------------------------------------------------------------------------
(* Python truthiness of an Optional[str]: `if result:` *)

TruthyNotNone(r) == r # None

Truthy(r) == r # None /\ r # ""


-----------------------------------------------------------------------------
(* OllamaIntegration *)

\* generate: guard on `available`, then client.generate inside try/except;
\* the text is response.get('response', '')
OllamaGenerate(b) ==
    IF ~available["ollama"]
    THEN [result |-> None, sdk |-> FALSE]
    ELSE [result |-> CASE b = Raise -> None
                       [] b = NoField -> ""
                       [] OTHER -> b,
          sdk |-> TRUE]

\* the same method with the availability guard dropped
OllamaGenerateAsyncUnguarded(b) ==
    [result |-> CASE b = Raise -> None
                  [] b = NoField -> ""
                  [] b = NoBackend -> None
                  [] OTHER -> b,
     sdk |-> TRUE]

\* generate_async: the same code over async_client, awaited
OllamaGenerateAsync(b) ==
    IF ~available["ollama"]
    THEN [result |-> None, sdk |-> FALSE]
    ELSE [result |-> CASE b = Raise -> None
                       [] b = NoField -> ""
                       [] OTHER -> b,
          sdk |-> TRUE]

\* chat: response['message']['content'], a missing key raises inside the try
OllamaChat(b) ==
    IF ~available["ollama"]
    THEN [result |-> None, sdk |-> FALSE]
    ELSE [result |-> IF b \in {Raise, NoField} THEN None ELSE b,
          sdk |-> TRUE]

\* what client.list() does: raise, answer without a 'models' field, answer
\* with an entry that lacks 'name', or answer with a list of model names
ModelPool == <<"llama2", "mistral", "phi", "gemma">>
NoList == [kind |-> "none", models |-> <<>>]
ListOutcomes ==
    {[kind |-> k, models |-> <<>>] : k \in {"raise", "nomodels", "badentry"}}
    \cup {[kind |-> "ok", models |-> SubSeq(ModelPool, 1, n)] :
             n \in 0..MaxModels}

\* list_models on an adapter whose flag is avail: guard, then client.list()
\* and [model['name'] for model in response.get('models', [])] in a try
ListModels(avail, lo) ==
    IF ~avail
    THEN [result |-> <<>>, sdk |-> FALSE]
    ELSE [result |-> IF lo.kind = "ok" THEN lo.models ELSE <<>>,
          sdk |-> TRUE]

\* the list query a caller can observe: made iff the adapter is available
ListOutcomesOf(avail) == IF avail THEN ListOutcomes ELSE {NoList}

-----------------------------------------------------------------------------
(* GeminiIntegration *)

\* generate: response.text, which is None when the response carries no text
GeminiGenerate(b) ==
    IF ~available["gemini"]
    THEN [result |-> None, sdk |-> FALSE]
    ELSE [result |-> IF b \in {Raise, NoField} THEN None ELSE b,
          sdk |-> TRUE]

\* a chat message: a dict that may lack its role or its content key
MsgRoles == {"user", "assistant", "system", NoField}
Messages ==
    [role : MsgRoles, content : {"q"}]
    \cup {[role |-> "user", content |-> NoField]}
Histories == UNION {[1..n -> Messages] : n \in 0..MaxMsgs}

\* msg["role"] / msg["content"] raise KeyError on a missing key
MsgWellFormed(m) == m.role # NoField /\ m.content # NoField

\* the role passed through unchanged
GeminiRoleUnmapped(r) == r

\* role = "user" if msg["role"] == "user" else "model"
GeminiRole(r) == IF r = "user" THEN "user" ELSE "model"

GeminiContents(msgs) ==
    [i \in 1..Len(msgs) |-> [role |-> GeminiRole(msgs[i].role),
                             text |-> msgs[i].content]]

\* chat: converts the history, then calls the backend; everything in the try
GeminiChat(msgs, b) ==
    IF ~available["gemini"]
    THEN [result |-> None, sdk |-> FALSE, contents |-> <<>>]
    ELSE IF \E i \in 1..Len(msgs) : ~MsgWellFormed(msgs[i])
    THEN [result |-> None, sdk |-> FALSE, contents |-> <<>>]
    ELSE [result |-> IF b \in {Raise, NoField} THEN None ELSE b,
          sdk |-> TRUE,
          contents |-> GeminiContents(msgs)]

-----------------------------------------------------------------------------
(* ClaudeIntegration *)

\* generate: message.content[0].text, an empty content list raises IndexError
ClaudeGenerate(b) ==
    IF ~available["claude"]
    THEN [result |-> None, sdk |-> FALSE]
    ELSE [result |-> IF b \in {Raise, NoField} THEN None ELSE b,
          sdk |-> TRUE]

ClaudeChat(b) ==
    IF ~available["claude"]
    THEN [result |-> None, sdk |-> FALSE]
    ELSE [result |-> IF b \in {Raise, NoField} THEN None ELSE b,
          sdk |-> TRUE]

\* the credential snapshot: None, or the claudeAiOauth dict of the file
CredFields == {"accessToken", "expiresAt", "subscriptionType"}
NoCredentials == [loaded |-> FALSE, fields |-> {}, expiresAt |-> 0]
CredentialChoices ==
    {NoCredentials}
    \cup {[loaded |-> TRUE, fields |-> f, expiresAt |-> 0] :
             f \in SUBSET (CredFields \ {"expiresAt"})}
    \cup {[loaded |-> TRUE, fields |-> f \cup {"expiresAt"}, expiresAt |-> e] :
             f \in SUBSET (CredFields \ {"expiresAt"}), e \in 0..MaxTime}

\* `if not self.credentials`: None and the empty dict are both falsy
CredentialsFalsy(c) == ~c.loaded \/ c.fields = {}

\* the comparison of is_token_valid with <= in place of <
IsTokenValidInclusive(now) ==
    IF CredentialsFalsy(credentials)
    THEN FALSE
    ELSE LET expires_at == IF "expiresAt" \in credentials.fields
                           THEN credentials.expiresAt ELSE 0
         IN  now <= expires_at

\* is_token_valid: int(time.time() * 1000) < credentials.get('expiresAt', 0)
IsTokenValid(now) ==
    IF CredentialsFalsy(credentials)
    THEN FALSE
    ELSE LET expires_at == IF "expiresAt" \in credentials.fields
                           THEN credentials.expiresAt ELSE 0
         IN  now < expires_at

\* the values held by the string fields of the credentials
FieldValue(field) ==
    CASE field = "accessToken" -> "sk-ant-oat01"
      [] field = "subscriptionType" -> "max"

\* get_access_token / get_subscription_type:
\* if self.credentials: return self.credentials.get(field); return None
GetCredentialField(field) ==
    IF CredentialsFalsy(credentials)
    THEN None
    ELSE IF field \in credentials.fields THEN FieldValue(field) ELSE None

-----------------------------------------------------------------------------
(* OpenAIIntegration *)

\* generate: response.choices[0].message.content (None when absent)
OpenAIGenerate(b) ==
    IF ~available["openai"]
    THEN [result |-> None, sdk |-> FALSE]
    ELSE [result |-> IF b \in {Raise, NoField} THEN None ELSE b,
          sdk |-> TRUE]

OpenAIChat(b) ==
    IF ~available["openai"]
    THEN [result |-> None, sdk |-> FALSE]
    ELSE [result |-> IF b \in {Raise, NoField} THEN None ELSE b,
          sdk |-> TRUE]

-----------------------------------------------------------------------------
(* DolphinIntegration *)

\* what subprocess.run does: raise (interpreter not found, ...), or finish
\* with some standard output and some exit code
LaunchOutcomes ==
    {[raises |-> TRUE, stdout |-> "", exit |-> 0]}
    \cup [raises : {FALSE}, stdout : {""} \cup Texts, exit : {0, 1}]

\* run_script treating a non-zero exit code as a failure
DolphinRunScriptChecked(scriptExists, launch) ==
    IF ~available["dolphin"]
    THEN [result |-> None, spawned |-> FALSE, log |-> {}]
    ELSE IF ~scriptExists
    THEN [result |-> None, spawned |-> FALSE, log |-> {ScriptNotFoundMsg}]
    ELSE IF launch.raises \/ launch.exit # 0
    THEN [result |-> None, spawned |-> TRUE, log |-> {ScriptErrorMsg}]
    ELSE [result |-> launch.stdout, spawned |-> TRUE, log |-> {}]

\* run_script: availability guard, script_path.exists() guard, then
\* subprocess.run inside try/except, returning result.stdout
DolphinRunScript(scriptExists, launch) ==
    IF ~available["dolphin"]
    THEN [result |-> None, spawned |-> FALSE, log |-> {}]
    ELSE IF ~scriptExists
    THEN [result |-> None, spawned |-> FALSE, log |-> {ScriptNotFoundMsg}]
    ELSE IF launch.raises
    THEN [result |-> None, spawned |-> TRUE, log |-> {ScriptErrorMsg}]
    ELSE [result |-> launch.stdout, spawned |-> TRUE, log |-> {}]

\* create_idea: open(temp_file, 'w') and json.dump (no guard, no try), then
\* run_script, then unlink the file if it exists.  dolphin_path exists iff
\* the adapter is available, so open() raises on an unavailable adapter; a
\* payload json cannot serialise makes json.dump raise after the file was
\* created.
DolphinCreateIdea(serialisable, scriptExists, launch) ==
    IF ~available["dolphin"]
    THEN [result |-> None, raised |-> TRUE, spawned |-> FALSE, log |-> {},
          tempFile |-> tempFile]
    ELSE IF ~serialisable
    THEN [result |-> None, raised |-> TRUE, spawned |-> FALSE, log |-> {},
          tempFile |-> TRUE]
    ELSE LET r == DolphinRunScript(scriptExists, launch)
         IN  [result |-> r.result, raised |-> FALSE, spawned |-> r.spawned,
              log |-> r.log, tempFile |-> FALSE]

-----------------------------------------------------------------------------
(* UltimaSystem: the facade *)

\* marks the backend of a provider the call is not about
Unused == "<unused>"

\* _gen_ollama: guard, then self.ollama.generate(kwargs.get('model',
\* 'llama2'), prompt, **kwargs).  With 'model' among the keyword options the
\* call passes `model` twice and Python raises TypeError at the call, before
\* the adapter's try block is entered.
GenOllama(kwargs, b) ==
    IF ~available["ollama"]
    THEN [result |-> None, raised |-> FALSE, sdk |-> FALSE]
    ELSE IF "model" \in kwargs
    THEN [result |-> None, raised |-> TRUE, sdk |-> FALSE]
    ELSE LET r == OllamaGenerate(b)
         IN  [result |-> r.result, raised |-> FALSE, sdk |-> r.sdk]

GenGemini(kwargs, b) ==
    IF ~available["gemini"]
    THEN [result |-> None, raised |-> FALSE, sdk |-> FALSE]
    ELSE LET r == GeminiGenerate(b)
         IN  [result |-> r.result, raised |-> FALSE, sdk |-> r.sdk]

GenClaude(kwargs, b) ==
    IF ~available["claude"]
    THEN [result |-> None, raised |-> FALSE, sdk |-> FALSE]
    ELSE LET r == ClaudeGenerate(b)
         IN  [result |-> r.result, raised |-> FALSE, sdk |-> r.sdk]

GenOpenAI(kwargs, b) ==
    IF ~available["openai"]
    THEN [result |-> None, raised |-> FALSE, sdk |-> FALSE]
    ELSE LET r == OpenAIGenerate(b)
         IN  [result |-> r.result, raised |-> FALSE, sdk |-> r.sdk]

\* the `providers` dispatch table
ProviderFn(name, kwargs, b) ==
    CASE name = "ollama" -> GenOllama(kwargs, b)
      [] name = "gemini" -> GenGemini(kwargs, b)
      [] name = "claude" -> GenClaude(kwargs, b)
      [] name = "openai" -> GenOpenAI(kwargs, b)

\* the outcome of a facade call that has done nothing yet
NoOutcome ==
    [result |-> None, raised |-> FALSE, invoked |-> <<>>, sdkCalls |-> <<>>,
     log |-> {}]

\* one provider tried: record the helper call and the backend call
Tried(acc, name, r) ==
    [acc EXCEPT !.invoked = Append(@, name),
                !.sdkCalls = IF r.sdk THEN Append(@, name) ELSE @]

\* an unknown provider handled as providers[provider] would: KeyError
UnknownProviderRaises(provider) ==
    [NoOutcome EXCEPT !.raised = TRUE]

\* fn = providers.get(provider); if not fn: print, return None
UnknownProvider(provider) ==
    [NoOutcome EXCEPT !.log = {UnknownProviderMsg}]

\* return fn(prompt, **kwargs)
ExplicitProvider(provider, kwargs, backend) ==
    LET r == ProviderFn(provider, kwargs, backend[provider])
    IN  [Tried(NoOutcome, provider, r) EXCEPT !.result = r.result,
                                              !.raised = r.raised]

\* the end of the auto loop turned into an exception
ExhaustedRaises(acc) ==
    [acc EXCEPT !.raised = TRUE]

\* after the loop: print "No provider available", return None
Exhausted(acc) ==
    [acc EXCEPT !.result = None, !.log = @ \cup {NoProviderMsg}]

\* for name in [claude, openai, gemini, ollama]: result = providers[name](...);
\* if result: return result
RECURSIVE AutoLoop(_, _, _, _)
AutoLoop(i, kwargs, backend, acc) ==
    IF i > Len(AutoOrder)
    THEN Exhausted(acc)
    ELSE LET name == AutoOrder[i]
             r == ProviderFn(name, kwargs, backend[name])
             acc1 == Tried(acc, name, r)
         IN  IF r.raised
             THEN [acc1 EXCEPT !.raised = TRUE]
             ELSE IF Truthy(r.result)
             THEN [acc1 EXCEPT !.result = r.result]
             ELSE AutoLoop(i + 1, kwargs, backend, acc1)

\* UltimaSystem.generate(prompt, provider, **kwargs)
FacadeGenerate(provider, kwargs, backend) ==
    IF provider # "auto"
    THEN IF provider \notin GenProviders
         THEN UnknownProvider(provider)
         ELSE ExplicitProvider(provider, kwargs, backend)
    ELSE AutoLoop(1, kwargs, backend, NoOutcome)

\* default model identifiers and the path reported by status_report
ModelName(p) ==
    CASE p = "gemini" -> "gemini-2.0-flash"
      [] p = "claude" -> "claude-sonnet-4-5-20250929"
      [] p = "openai" -> "gpt-4o-mini"
DolphinPath == "dolphin_path"

\* status_report with the model id reported whatever the availability
StatusSnapshotUnconditional(lo) ==
    LET l == ListModels(available["ollama"], lo)
    IN  [integrations |->
           [p \in Providers |->
              CASE p = "ollama" ->
                     [available |-> available[p],
                      models |-> IF available[p] THEN l.result ELSE <<>>]
                [] p = "dolphin" ->
                     [available |-> available[p],
                      path |-> IF available[p] THEN DolphinPath ELSE None]
                [] OTHER ->
                     [available |-> available[p], model |-> ModelName(p)]],
         sdk |-> available["ollama"] /\ l.sdk]

\* status_report: one entry per adapter, built from the flags at the time
\* of the call; the model list comes from list_models when Ollama is
\* available
StatusSnapshot(lo) ==
    LET l == ListModels(available["ollama"], lo)
    IN  [integrations |->
           [p \in Providers |->
              CASE p = "ollama" ->
                     [available |-> available[p],
                      models |-> IF available[p] THEN l.result ELSE <<>>]
                [] p = "dolphin" ->
                     [available |-> available[p],
                      path |-> IF available[p] THEN DolphinPath ELSE None]
                [] OTHER ->
                     [available |-> available[p],
                      model |-> IF available[p] THEN ModelName(p) ELSE None]],
         sdk |-> available["ollama"] /\ l.sdk]

-----------------------------------------------------------------------------
(* Inputs *)

\* the backend of one adapter: it answers iff the adapter holds a client
BackendOf(p) == IF available[p] THEN Backend ELSE {NoBackend}

\* backends consulted by a facade call: all of them in auto mode, only the
\* named one in explicit mode
FacadeBackends(provider) ==
    {b \in [GenProviders -> Backend \cup {NoBackend, Unused}] :
        \A p \in GenProviders :
            IF provider = "auto" \/ provider = p
            THEN b[p] \in BackendOf(p)
            ELSE b[p] = Unused}

NoArgs == [none |-> TRUE]

-----------------------------------------------------------------------------
(* State machine *)

Init ==
    /\ available \in [Providers -> BOOLEAN]
    /\ credentials \in CredentialChoices
    /\ tempFile = FALSE
    /\ op = "none"
    /\ args = NoArgs
    /\ result = None
    /\ raised = FALSE
    /\ invoked = <<>>
    /\ sdkCalls = <<>>
    /\ spawned = FALSE
    /\ contents = <<>>
    /\ log = {}
    /\ tasks = NoTasks

\* system.generate(prompt, provider, **kwargs)
Generate ==
    /\ op = "none"
    /\ \E provider \in ProviderArgs, kwargs \in KwargsChoices :
         \E backend \in FacadeBackends(provider) :
            LET o == FacadeGenerate(provider, kwargs, backend)
            IN  /\ op' = "generate"
                /\ args' = [provider |-> provider, kwargs |-> kwargs,
                            backend |-> backend]
                /\ result' = o.result
                /\ raised' = o.raised
                /\ invoked' = o.invoked
                /\ sdkCalls' = o.sdkCalls
                /\ log' = o.log
    /\ UNCHANGED <<env, tempFile, spawned, contents>>

\* adapter.generate(...) with a failed call demoting the adapter
AdapterGenerateDemoting ==
    /\ op = "none"
    /\ \E p \in GenProviders : \E b \in BackendOf(p) :
         LET r == CASE p = "ollama" -> OllamaGenerate(b)
                    [] p = "gemini" -> GeminiGenerate(b)
                    [] p = "claude" -> ClaudeGenerate(b)
                    [] p = "openai" -> OpenAIGenerate(b)
         IN  /\ op' = "adapter_generate"
             /\ args' = [adapter |-> p, backend |-> b]
             /\ result' = r.result
             /\ sdkCalls' = IF r.sdk THEN <<p>> ELSE <<>>
             /\ available' = IF r.sdk /\ r.result = None
                              THEN [available EXCEPT ![p] = FALSE]
                              ELSE available
    /\ raised' = FALSE
    /\ UNCHANGED <<credentials, tasks, tempFile, invoked, spawned, contents,
                   log>>

\* adapter.generate(...) called directly on one of the four adapters
AdapterGenerate ==
    /\ op = "none"
    /\ \E p \in GenProviders : \E b \in BackendOf(p) :
         LET r == CASE p = "ollama" -> OllamaGenerate(b)
                    [] p = "gemini" -> GeminiGenerate(b)
                    [] p = "claude" -> ClaudeGenerate(b)
                    [] p = "openai" -> OpenAIGenerate(b)
         IN  /\ op' = "adapter_generate"
             /\ args' = [adapter |-> p, backend |-> b]
             /\ result' = r.result
             /\ sdkCalls' = IF r.sdk THEN <<p>> ELSE <<>>
    /\ raised' = FALSE
    /\ UNCHANGED <<env, tempFile, invoked, spawned, contents, log>>

\* adapter.chat(...) on Ollama, Claude or OpenAI
AdapterChat ==
    /\ op = "none"
    /\ \E p \in {"ollama", "claude", "openai"} : \E b \in BackendOf(p) :
         LET r == CASE p = "ollama" -> OllamaChat(b)
                    [] p = "claude" -> ClaudeChat(b)
                    [] p = "openai" -> OpenAIChat(b)
         IN  /\ op' = "adapter_chat"
             /\ args' = [adapter |-> p, backend |-> b]
             /\ result' = r.result
             /\ sdkCalls' = IF r.sdk THEN <<p>> ELSE <<>>
    /\ raised' = FALSE
    /\ UNCHANGED <<env, tempFile, invoked, spawned, contents, log>>

\* gemini.chat(messages)
GeminiChatCall ==
    /\ op = "none"
    /\ \E msgs \in Histories : \E b \in BackendOf("gemini") :
         LET r == GeminiChat(msgs, b)
         IN  /\ op' = "adapter_chat"
             /\ args' = [adapter |-> "gemini", backend |-> b, messages |-> msgs]
             /\ result' = r.result
             /\ sdkCalls' = IF r.sdk THEN <<"gemini">> ELSE <<>>
             /\ contents' = r.contents
    /\ raised' = FALSE
    /\ UNCHANGED <<env, tempFile, invoked, spawned, log>>

\* await ollama.generate_async(...)
GenerateAsync ==
    /\ op = "none"
    /\ \E b \in BackendOf("ollama") :
         LET r == OllamaGenerateAsync(b)
         IN  /\ op' = "generate_async"
             /\ args' = [adapter |-> "ollama", backend |-> b]
             /\ result' = r.result
             /\ sdkCalls' = IF r.sdk THEN <<"ollama">> ELSE <<>>
    /\ raised' = FALSE
    /\ UNCHANGED <<env, tempFile, invoked, spawned, contents, log>>

\* dolphin.run_script(name, *args); a script can exist only under an
\* existing dolphin_path
RunScript ==
    /\ op = "none"
    /\ \E scriptExists \in {FALSE, available["dolphin"]}, launch \in LaunchOutcomes :
         LET r == DolphinRunScript(scriptExists, launch)
         IN  /\ op' = "run_script"
             /\ args' = [adapter |-> "dolphin", scriptExists |-> scriptExists,
                         launch |-> launch]
             /\ result' = r.result
             /\ spawned' = r.spawned
             /\ log' = r.log
    /\ raised' = FALSE
    /\ UNCHANGED <<env, tempFile, invoked, sdkCalls, contents>>

\* dolphin.create_idea(idea_data)
CreateIdea ==
    /\ op = "none"
    /\ \E serialisable \in BOOLEAN,
          scriptExists \in {FALSE, available["dolphin"]},
          launch \in LaunchOutcomes :
         LET r == DolphinCreateIdea(serialisable, scriptExists, launch)
         IN  /\ op' = "create_idea"
             /\ args' = [adapter |-> "dolphin", serialisable |-> serialisable,
                         scriptExists |-> scriptExists, launch |-> launch]
             /\ result' = r.result
             /\ raised' = r.raised
             /\ spawned' = r.spawned
             /\ log' = r.log
             /\ tempFile' = r.tempFile
    /\ UNCHANGED <<env, invoked, sdkCalls, contents>>

\* claude.is_token_valid(), reading the clock
TokenValid ==
    /\ op = "none"
    /\ \E now \in 1..MaxTime :
         /\ op' = "is_token_valid"
         /\ args' = [now |-> now]
         /\ result' = IsTokenValid(now)
    /\ raised' = FALSE
    /\ UNCHANGED <<env, tempFile, invoked, sdkCalls, spawned, contents, log>>

\* dolphin.dolphin_command(*args) and dolphin.agent_watch(): run_script on
\* dolphin.mjs and on agent.mjs
DelegatedScript ==
    /\ op = "none"
    /\ \E entry \in {"dolphin_command", "agent_watch"},
          scriptExists \in {FALSE, available["dolphin"]},
          launch \in LaunchOutcomes :
         LET r == DolphinRunScript(scriptExists, launch)
         IN  /\ op' = entry
             /\ args' = [adapter |-> "dolphin",
                         script |-> IF entry = "dolphin_command"
                                    THEN "dolphin.mjs" ELSE "agent.mjs",
                         scriptExists |-> scriptExists, launch |-> launch]
             /\ result' = r.result
             /\ spawned' = r.spawned
             /\ log' = r.log
    /\ raised' = FALSE
    /\ UNCHANGED <<env, tempFile, invoked, sdkCalls, contents>>

\* ollama.list_models()
ListModelsCall ==
    /\ op = "none"
    /\ \E lo \in ListOutcomesOf(available["ollama"]) :
         LET r == ListModels(available["ollama"], lo)
         IN  /\ op' = "list_models"
             /\ args' = [adapter |-> "ollama", list |-> lo]
             /\ result' = r.result
             /\ sdkCalls' = IF r.sdk THEN <<"ollama">> ELSE <<>>
    /\ raised' = FALSE
    /\ UNCHANGED <<env, tempFile, invoked, spawned, contents, log>>

\* system.status_report()
StatusReport ==
    /\ op = "none"
    /\ \E lo \in ListOutcomesOf(available["ollama"]) :
         LET r == StatusSnapshot(lo)
         IN  /\ op' = "status_report"
             /\ args' = [list |-> lo]
             /\ result' = [integrations |-> r.integrations]
             /\ sdkCalls' = IF r.sdk THEN <<"ollama">> ELSE <<>>
    /\ raised' = FALSE
    /\ UNCHANGED <<env, tempFile, invoked, spawned, contents, log>>

\* claude.get_access_token(), claude.get_subscription_type()
CredentialGetter ==
    /\ op = "none"
    /\ \E field \in {"accessToken", "subscriptionType"} :
         /\ op' = "get_credential"
         /\ args' = [field |-> field]
         /\ result' = GetCredentialField(field)
    /\ raised' = FALSE
    /\ UNCHANGED <<env, tempFile, invoked, sdkCalls, spawned, contents, log>>

\* the caller takes the outcome; the system is idle again
Return ==
    /\ op # "none"
    /\ op' = "none"
    /\ args' = NoArgs
    /\ result' = None
    /\ raised' = FALSE
    /\ invoked' = <<>>
    /\ sdkCalls' = <<>>
    /\ spawned' = FALSE
    /\ contents' = <<>>
    /\ log' = {}
    /\ UNCHANGED <<env, tempFile>>

Next ==
    \/ Generate
    \/ AdapterGenerate
    \/ AdapterChat
    \/ GeminiChatCall
    \/ GenerateAsync
    \/ RunScript
    \/ CreateIdea
    \/ TokenValid
    \/ DelegatedScript
    \/ ListModelsCall
    \/ StatusReport
    \/ CredentialGetter
    \/ Return

Spec == Init /\ [][Next]_vars

-----------------------------------------------------------------------------
(* Construction: the capability probes *)

\* API keys and file contents are sequences of characters; the empty
\* sequence stands for both None and "" (the code tests keys only with
\* `or` and `if not key`, which treat the two alike)
NoKey == <<>>

\* Python's `a or b` on keys
OrKey(a, b) == IF a # NoKey THEN a ELSE b

Whitespace == {" "}

\* str.strip(chars): drop leading and trailing characters of the set
RECURSIVE LStrip(_, _)
LStrip(s, cs) ==
    IF s # <<>> /\ Head(s) \in cs THEN LStrip(Tail(s), cs) ELSE s

RECURSIVE RStrip(_, _)
RStrip(s, cs) ==
    IF s # <<>> /\ s[Len(s)] \in cs
    THEN RStrip(SubSeq(s, 1, Len(s) - 1), cs)
    ELSE s

Strip(s, cs) == RStrip(LStrip(s, cs), cs)

\* line.split("=", 1)[1].strip().strip('"').strip("'")
EnvLineValue(raw) == Strip(Strip(Strip(raw, Whitespace), {"\""}), {"'"})

\* for line in lines: if line.startswith(NAME=): key = value; break
RECURSIVE FirstMatch(_, _)
FirstMatch(lines, names) ==
    IF lines = <<>>
    THEN NoKey
    ELSE IF Head(lines).name \in names
    THEN EnvLineValue(Head(lines).raw)
    ELSE FirstMatch(Tail(lines), names)

\* the environment variables the constructors read, and the value each holds
\* when it is set
VarNames ==
    {"GEMINI_API_KEY", "GOOGLE_API_KEY", "ANTHROPIC_API_KEY", "OPENAI_API_KEY"}
VarValue(name) ==
    CASE name = "GEMINI_API_KEY" -> <<"g">>
      [] name = "GOOGLE_API_KEY" -> <<"o">>
      [] name = "ANTHROPIC_API_KEY" -> <<"a">>
      [] name = "OPENAI_API_KEY" -> <<"p">>

\* os.environ.get(name) over the set of variables that are set
EnvGet(e, name) == IF name \in e.vars THEN VarValue(name) ELSE NoKey

\* the three hosted-API adapters, their SDK package and their key variables
Hosted == {"gemini", "claude", "openai"}
KeyVars(p) ==
    CASE p = "gemini" -> {"GEMINI_API_KEY", "GOOGLE_API_KEY"}
      [] p = "claude" -> {"ANTHROPIC_API_KEY"}
      [] p = "openai" -> {"OPENAI_API_KEY"}

\* _load_credentials: None if the file is missing or does not parse, else
\* data.get('claudeAiOauth')
LoadCredentials(e) ==
    IF ~e.credFile.exists \/ ~e.credFile.parses
    THEN NoCredentials
    ELSE e.credFile.oauth

\* the outcome of one adapter constructor
ProbeOutcome(avail, key, consulted) ==
    [available |-> avail, raised |-> FALSE, key |-> key,
     consulted |-> consulted]

\* OllamaIntegration.__init__ without its try/except
OllamaInitUnprotected(e) ==
    [ProbeOutcome(e.ollamaPkg, NoKey, <<>>) EXCEPT !.raised = ~e.ollamaPkg]

\* OllamaIntegration.__init__: import ollama and build the clients in a try
OllamaInit(e) == ProbeOutcome(e.ollamaPkg, NoKey, <<>>)

\* DolphinIntegration.__init__: available = dolphin_path.exists()
DolphinInit(e) == ProbeOutcome(e.dolphinPath, NoKey, <<>>)

\* GeminiIntegration.__init__
GeminiInit(api_key, e) ==
    IF ~e.sdk["gemini"]
    THEN ProbeOutcome(FALSE, NoKey, <<>>)
    ELSE LET k1 == OrKey(OrKey(api_key, EnvGet(e, "GEMINI_API_KEY")),
                         EnvGet(e, "GOOGLE_API_KEY"))
             useEnv == api_key = NoKey
             useFile == k1 = NoKey
             k2 == IF useFile /\ e.dotenv.exists
                   THEN FirstMatch(e.dotenv.lines, KeyVars("gemini"))
                   ELSE k1
             consulted == <<"arg">> \o (IF useEnv THEN <<"env">> ELSE <<>>)
                             \o (IF useFile THEN <<"dotenv">> ELSE <<>>)
         IN  ProbeOutcome(k2 # NoKey, k2, consulted)

\* ClaudeIntegration.__init__ (the key part; credentials are loaded first)
ClaudeInit(api_key, e) ==
    IF ~e.sdk["claude"]
    THEN ProbeOutcome(FALSE, NoKey, <<>>)
    ELSE LET k1 == OrKey(api_key, EnvGet(e, "ANTHROPIC_API_KEY"))
             useEnv == api_key = NoKey
             useFile == k1 = NoKey
             k2 == IF useFile /\ e.dotenv.exists
                   THEN FirstMatch(e.dotenv.lines, KeyVars("claude"))
                   ELSE k1
             consulted == <<"arg">> \o (IF useEnv THEN <<"env">> ELSE <<>>)
                             \o (IF useFile THEN <<"dotenv">> ELSE <<>>)
         IN  ProbeOutcome(k2 # NoKey, k2, consulted)

\* OpenAIIntegration.__init__: api_key.txt is read when it exists, and .env
\* only in the else branch, when api_key.txt does not exist
OpenAIInit(api_key, e) ==
    IF ~e.sdk["openai"]
    THEN ProbeOutcome(FALSE, NoKey, <<>>)
    ELSE LET k1 == OrKey(api_key, EnvGet(e, "OPENAI_API_KEY"))
             useEnv == api_key = NoKey
             useFiles == k1 = NoKey
             useDotenv == useFiles /\ ~e.keyFile.exists
             k2 == IF ~useFiles THEN k1
                   ELSE IF e.keyFile.exists
                   THEN Strip(e.keyFile.text, Whitespace)
                   ELSE IF e.dotenv.exists
                   THEN FirstMatch(e.dotenv.lines, KeyVars("openai"))
                   ELSE k1
             consulted == <<"arg">> \o (IF useEnv THEN <<"env">> ELSE <<>>)
                             \o (IF useFiles THEN <<"keyfile">> ELSE <<>>)
                             \o (IF useDotenv THEN <<"dotenv">> ELSE <<>>)
         IN  ProbeOutcome(k2 # NoKey, k2, consulted)

\* the constructor of one adapter
AdapterInit(name, api_key, e) ==
    CASE name = "ollama" -> OllamaInit(e)
      [] name = "dolphin" -> DolphinInit(e)
      [] name = "gemini" -> GeminiInit(api_key, e)
      [] name = "claude" -> ClaudeInit(api_key, e)
      [] name = "openai" -> OpenAIInit(api_key, e)

\* the order in which UltimaSystem.__init__ constructs the adapters
InitOrder == <<"ollama", "dolphin", "gemini", "claude", "openai">>

NothingConstructed ==
    [available |-> [p \in Providers |-> FALSE], raised |-> FALSE,
     constructed |-> {}, keys |-> [p \in Hosted |-> NoKey]]

\* UltimaSystem.__init__: the five constructors in turn, each without
\* arguments; an exception leaving one of them would end the construction
RECURSIVE UltimaInitFrom(_, _, _)
UltimaInitFrom(i, e, acc) ==
    IF i > Len(InitOrder)
    THEN acc
    ELSE LET name == InitOrder[i]
             r == AdapterInit(name, NoKey, e)
         IN  IF r.raised
             THEN [acc EXCEPT !.raised = TRUE]
             ELSE UltimaInitFrom(i + 1, e,
                    [acc EXCEPT !.available[name] = r.available,
                                !.constructed = @ \cup {name},
                                !.keys = IF name \in Hosted
                                         THEN [@ EXCEPT ![name] = r.key]
                                         ELSE @])

UltimaInit(e) == UltimaInitFrom(1, e, NothingConstructed)

-----------------------------------------------------------------------------
(* Construction: environments and actions *)

NoFile == [exists |-> FALSE, text |-> <<>>]
NoDotenv == [exists |-> FALSE, lines |-> <<>>]
NoCredFile == [exists |-> FALSE, parses |-> FALSE, oauth |-> NoCredentials]

\* an environment in which every probe fails
BaseEnv ==
    [ollamaPkg |-> FALSE, dolphinPath |-> FALSE,
     sdk |-> [p \in Hosted |-> FALSE], vars |-> {},
     keyFile |-> NoFile, dotenv |-> NoDotenv, credFile |-> NoCredFile]

\* contents of api_key.txt
KeyFiles ==
    {NoFile}
    \cup {[exists |-> TRUE, text |-> t] :
             t \in {<<>>, <<" ">>, <<"t">>, <<" ", "t", " ">>}}

\* the text after NAME= on a line of .env
RawValues == {<<>>, <<"f">>, <<"\"", "h", "\"">>, <<" ", "'", "f", "'">>}

DotenvLines(names) ==
    [name : names, raw : RawValues]
    \cup {[name |-> "OTHER", raw |-> <<"x">>]}

DotenvFiles(names) ==
    {NoDotenv}
    \cup {[exists |-> TRUE, lines |-> l] :
             l \in UNION {[1..n -> DotenvLines(names)] : n \in 0..MaxLines}}

\* the credentials file: missing, unparsable, or holding some oauth object
CredFiles ==
    {NoCredFile, [exists |-> TRUE, parses |-> FALSE, oauth |-> NoCredentials]}
    \cup {[exists |-> TRUE, parses |-> TRUE, oauth |-> o] :
             o \in CredentialChoices}

\* api_key arguments tried on the adapter constructors
ApiKeyArgs == {NoKey, <<"k">>}

\* environments of a directly constructed hosted adapter
HostedEnvs(p) ==
    {[BaseEnv EXCEPT !.sdk[p] = s, !.vars = v, !.dotenv = d, !.keyFile = k,
                     !.credFile = c] :
        s \in BOOLEAN, v \in SUBSET KeyVars(p),
        d \in DotenvFiles(KeyVars(p)),
        k \in (IF p = "openai" THEN KeyFiles ELSE {NoFile}),
        c \in (IF p = "claude" THEN CredFiles ELSE {NoCredFile})}

\* environments of UltimaSystem()
FacadeKeyFiles == {NoFile, [exists |-> TRUE, text |-> <<"t">>]}
FacadeDotenvs ==
    {NoDotenv,
     [exists |-> TRUE, lines |-> <<[name |-> "OTHER", raw |-> <<"x">>]>>],
     [exists |-> TRUE,
      lines |-> <<[name |-> "GOOGLE_API_KEY", raw |-> <<"f">>],
                  [name |-> "ANTHROPIC_API_KEY", raw |-> <<"f">>],
                  [name |-> "OPENAI_API_KEY", raw |-> <<"f">>]>>]}
FacadeCredFiles ==
    {NoCredFile,
     [exists |-> TRUE, parses |-> FALSE, oauth |-> NoCredentials],
     [exists |-> TRUE, parses |-> TRUE, oauth |-> NoCredentials],
     [exists |-> TRUE, parses |-> TRUE,
      oauth |-> [loaded |-> TRUE, fields |-> CredFields,
                 expiresAt |-> MaxTime]]}
FacadeEnvs ==
    [ollamaPkg : BOOLEAN, dolphinPath : BOOLEAN, sdk : [Hosted -> BOOLEAN],
     vars : SUBSET VarNames, keyFile : FacadeKeyFiles,
     dotenv : FacadeDotenvs, credFile : FacadeCredFiles]

\* before any constructor has run
InitConstruct ==
    /\ available = [p \in Providers |-> FALSE]
    /\ credentials = NoCredentials
    /\ tempFile = FALSE
    /\ op = "unconstructed"
    /\ args = NoArgs
    /\ result = None
    /\ raised = FALSE
    /\ invoked = <<>>
    /\ sdkCalls = <<>>
    /\ spawned = FALSE
    /\ contents = <<>>
    /\ log = {}
    /\ tasks = NoTasks

\* UltimaSystem(): the five constructors, then _print_status, which lists
\* the installed models when Ollama is available
ConstructUltima ==
    /\ op = "unconstructed"
    /\ \E e \in FacadeEnvs :
         LET o == UltimaInit(e)
             listed == ~o.raised /\ o.available["ollama"]
         IN  \E lo \in ListOutcomesOf(listed) :
               /\ op' = "UltimaSystem"
               /\ args' = [env |-> e, list |-> lo]
               /\ available' = o.available
               /\ credentials' = IF "claude" \in o.constructed
                                 THEN LoadCredentials(e)
                                 ELSE NoCredentials
               /\ raised' = o.raised
               /\ result' = [constructed |-> o.constructed, keys |-> o.keys]
               /\ sdkCalls' = IF ListModels(listed, lo).sdk
                              THEN <<"ollama">> ELSE <<>>
    /\ UNCHANGED <<tempFile, invoked, spawned, contents, log, tasks>>

\* GeminiIntegration(api_key), ClaudeIntegration(api_key),
\* OpenAIIntegration(api_key) constructed on their own
ConstructHosted ==
    /\ op = "unconstructed"
    /\ \E p \in Hosted, api_key \in ApiKeyArgs : \E e \in HostedEnvs(p) :
         LET r == AdapterInit(p, api_key, e)
         IN  /\ op' = "adapter_init"
             /\ args' = [adapter |-> p, api_key |-> api_key, env |-> e]
             /\ available' = [available EXCEPT ![p] = r.available]
             /\ credentials' = IF p = "claude"
                               THEN LoadCredentials(e)
                               ELSE credentials
             /\ raised' = r.raised
             /\ result' = [key |-> r.key, consulted |-> r.consulted]
    /\ UNCHANGED <<tempFile, invoked, sdkCalls, spawned, contents, log, tasks>>

\* OllamaIntegration(), DolphinIntegration() constructed on their own
ConstructLocal ==
    /\ op = "unconstructed"
    /\ \E p \in {"ollama", "dolphin"}, pkg \in BOOLEAN, path \in BOOLEAN :
         LET e == [BaseEnv EXCEPT !.ollamaPkg = pkg, !.dolphinPath = path]
             r == AdapterInit(p, NoKey, e)
         IN  /\ op' = "adapter_init"
             /\ args' = [adapter |-> p, api_key |-> NoKey, env |-> e]
             /\ available' = [available EXCEPT ![p] = r.available]
             /\ raised' = r.raised
             /\ result' = [key |-> r.key, consulted |-> r.consulted]
    /\ UNCHANGED <<credentials, tempFile, invoked, sdkCalls, spawned,
                   contents, log, tasks>>

\* the constructed object is dropped; the next constructor starts afresh
Discard ==
    /\ op # "unconstructed"
    /\ available' = [p \in Providers |-> FALSE]
    /\ credentials' = NoCredentials
    /\ op' = "unconstructed"
    /\ args' = NoArgs
    /\ result' = None
    /\ raised' = FALSE
    /\ invoked' = <<>>
    /\ sdkCalls' = <<>>
    /\ spawned' = FALSE
    /\ contents' = <<>>
    /\ log' = {}
    /\ UNCHANGED <<tempFile, tasks>>

NextConstruct ==
    \/ ConstructUltima
    \/ ConstructHosted
    \/ ConstructLocal
    \/ Discard

SpecConstruct == InitConstruct /\ [][NextConstruct]_vars

-----------------------------------------------------------------------------
(* Concurrent generate_async calls on one OllamaIntegration *)

Prompts == {"p1", "p2"}

\* the variables of the synchronous calls
sync == <<available, credentials, tempFile, op, args, result, raised,
          invoked, sdkCalls, spawned, contents, log>>

\* the response a resumed coroutine reads, were it kept in one slot on the
\* adapter: that of the first task holding one
AsyncSharedResponse(t) ==
    LET holders == {u \in Tasks : tasks[u].pc \in {"responded", "done"}}
        first == CHOOSE u \in holders : \A v \in holders : u <= v
    IN  tasks[first].response

\* the response a resumed coroutine reads: the local `response` of its own
\* frame, bound by `response = await self.async_client.generate(...)`
AsyncOwnResponse(t) == tasks[t].response

\* return response.get('response', ''), or None from the except clause
AsyncResult(response) ==
    CASE response = Raise -> None
      [] response = NoField -> ""
      [] OTHER -> response

\* generate_async is called: the guard, then the request is sent and the
\* coroutine suspends at the await
AsyncCall(t) ==
    /\ tasks[t].pc = "idle"
    /\ \E prompt \in Prompts :
         tasks' = [tasks EXCEPT ![t] =
                     IF ~available["ollama"]
                     THEN [pc |-> "done", prompt |-> prompt,
                           response |-> NoBackend, result |-> None]
                     ELSE [pc |-> "awaiting", prompt |-> prompt]]
    /\ UNCHANGED sync

\* the backend round-trip of one request completes
AsyncRespond(t) ==
    /\ tasks[t].pc = "awaiting"
    /\ \E b \in Backend :
         tasks' = [tasks EXCEPT ![t] =
                     [pc |-> "responded", prompt |-> tasks[t].prompt,
                      response |-> b]]
    /\ UNCHANGED sync

\* the coroutine resumes after the await and returns
AsyncResume(t) ==
    /\ tasks[t].pc = "responded"
    /\ tasks' = [tasks EXCEPT ![t] =
                   [pc |-> "done", prompt |-> tasks[t].prompt,
                    response |-> tasks[t].response,
                    result |-> AsyncResult(AsyncOwnResponse(t))]]
    /\ UNCHANGED sync

\* the caller takes the result of a finished call
AsyncCollect(t) ==
    /\ tasks[t].pc = "done"
    /\ tasks' = [tasks EXCEPT ![t] = IdleTask]
    /\ UNCHANGED sync

\* only the Ollama adapter takes part
InitAsync ==
    /\ Init
    /\ credentials = NoCredentials
    /\ \A p \in Providers \ {"ollama"} : ~available[p]

NextAsync ==
    \E t \in Tasks :
        \/ AsyncCall(t)
        \/ AsyncRespond(t)
        \/ AsyncResume(t)
        \/ AsyncCollect(t)

SpecAsync == InitAsync /\ [][NextAsync]_vars

-----------------------------------------------------------------------------
(* Properties *)

Range(seq) == {seq[i] : i \in 1..Len(seq)}

IsFacadeCall == op = "generate"
IsAutoCall == IsFacadeCall /\ args.provider = "auto"
IsExplicitCall == IsFacadeCall /\ args.provider \in GenProviders

\* in the facade call that has just run, provider p's generate returns a
\* non-empty text: p is available, its backend answers with a text, and the
\* call of the adapter method itself goes through (a `model` option makes
\* the call of OllamaIntegration.generate fail before it runs)
ReturnsText(p) ==
    /\ available[p]
    /\ args.backend[p] \in Texts
    /\ ~(p = "ollama" /\ "model" \in args.kwargs)

FirstReturningText(i) ==
    /\ ReturnsText(AutoOrder[i])
    /\ \A j \in 1..(i - 1) : ~ReturnsText(AutoOrder[j])

\* C1: in auto mode, if the provider at index i of [claude, openai, gemini,
\* ollama] is the first available one whose generate returns non-empty text,
\* the facade returns exactly that text and no provider after index i is
\* invoked; an empty string counts as a failure and the chain continues.
C1_AutoFirstNonEmptyWins ==
    IsAutoCall =>
        \A i \in 1..Len(AutoOrder) :
            FirstReturningText(i) =>
                /\ ~raised
                /\ result = args.backend[AutoOrder[i]]
                /\ \A j \in (i + 1)..Len(AutoOrder) :
                       /\ AutoOrder[j] \notin Range(invoked)
                       /\ AutoOrder[j] \notin Range(sdkCalls)

\* C1 witness: only gemini and ollama available, gemini answers "", ollama
\* answers "hello", and the auto call returned "hello"
C1_Witness ==
    /\ IsAutoCall
    /\ ~available["claude"] /\ ~available["openai"]
    /\ available["gemini"] /\ available["ollama"]
    /\ args.backend["gemini"] = ""
    /\ args.backend["ollama"] = "hello"
    /\ result = "hello"
    /\ invoked = AutoOrder

\* C2: with every provider unavailable an auto call returns None, does not
\* raise and calls no backend.
C2_AllUnavailableAbsent ==
    (IsAutoCall /\ \A p \in GenProviders : ~available[p]) =>
        /\ result = None
        /\ ~raised
        /\ sdkCalls = <<>>

\* C2 witness: an auto call has run with every provider unavailable
C2_Witness ==
    /\ IsAutoCall
    /\ \A p \in Providers : ~available[p]
    /\ NoProviderMsg \in log

\* C3: a provider name outside auto/ollama/gemini/claude/openai ("dolphin"
\* included) gives None, an unknown-provider report, no exception and no
\* adapter invocation, whatever the adapters' availability.
C3_UnknownProviderAbsent ==
    (IsFacadeCall /\ args.provider \notin GenProviders \cup {"auto"}) =>
        /\ result = None
        /\ ~raised
        /\ UnknownProviderMsg \in log
        /\ invoked = <<>>
        /\ sdkCalls = <<>>

\* C3 witness: generate(prompt, "dolphin") has run with every adapter available
C3_Witness ==
    /\ IsFacadeCall
    /\ args.provider = "dolphin"
    /\ \A p \in Providers : available[p]
    /\ result = None

\* what the named adapter's generate gives for this backend behaviour
AdapterResult(p, b) ==
    CASE p = "ollama" -> OllamaGenerate(b).result
      [] p = "gemini" -> GeminiGenerate(b).result
      [] p = "claude" -> ClaudeGenerate(b).result
      [] p = "openai" -> OpenAIGenerate(b).result

\* C4: with an explicit known provider only that provider is invoked; if it
\* is unavailable the result is None with no backend call, otherwise the
\* facade returns exactly that adapter's result; no other provider is tried.
C4_ExplicitNoFallback ==
    IsExplicitCall =>
        /\ Range(invoked) \subseteq {args.provider}
        /\ Range(sdkCalls) \subseteq {args.provider}
        /\ ~available[args.provider] =>
               (result = None /\ ~raised /\ sdkCalls = <<>>)
        /\ available[args.provider] =>
               /\ ~raised
               /\ result = AdapterResult(args.provider,
                                         args.backend[args.provider])

\* C5: an adapter whose available flag is false yields None on generate,
\* chat, generate_async and run_script, and in every facade generate that
\* reaches it, without any backend call or subprocess launch.
C5_UnavailableShortCircuits ==
    /\ (/\ op \in {"adapter_generate", "adapter_chat", "generate_async",
                   "run_script"}
        /\ ~available[args.adapter]) =>
           (result = None /\ ~raised /\ sdkCalls = <<>> /\ ~spawned)
    /\ IsFacadeCall =>
           \A p \in GenProviders :
               ~available[p] =>
                   /\ p \notin Range(sdkCalls)
                   /\ args.provider = p => (result = None /\ ~raised)

\* C5 witness: generate_async has run on an unavailable Ollama adapter
C5_Witness ==
    /\ op = "generate_async"
    /\ ~available["ollama"]
    /\ result = None

\* C6: on an available adapter every backend failure (exception, timeout,
\* malformed or missing response field) in generate or chat is caught and
\* the call returns None.
C6_BackendFailureAbsent ==
    (/\ op \in {"adapter_generate", "adapter_chat"}
     /\ available[args.adapter]
     /\ args.backend \in {Raise, NoField}) =>
        (result = None /\ ~raised)

\* C7: UltimaSystem.generate never raises, whatever the provider argument,
\* the availability set and the options (a `model` option included).
C7_FacadeNeverRaises ==
    IsFacadeCall => ~raised

\* C8: after create_idea has returned or raised, on every exit path,
\* temp_idea.json does not exist.
C8_TempFileRemoved ==
    op = "create_idea" => ~tempFile

\* C9: is_token_valid is true iff credentials are loaded and now < expiresAt
\* (false without credentials or without expiresAt), and no step ever
\* changes the credentials.
C9_TokenValidIffNotExpired ==
    /\ [](op = "is_token_valid" =>
            (result <=> /\ credentials.loaded
                        /\ "expiresAt" \in credentials.fields
                        /\ args.now < credentials.expiresAt))
    /\ [][credentials' = credentials]_vars

\* C9 witness: is_token_valid has run with expiresAt equal to the clock
\* reading, and answered false
C9_Witness ==
    /\ op = "is_token_valid"
    /\ credentials.loaded
    /\ "expiresAt" \in credentials.fields
    /\ credentials.expiresAt = args.now
    /\ result = FALSE

\* C10: every value UltimaSystem.generate returns, in explicit as in auto
\* mode, is a non-empty text or None, never the empty string.
C10_ResultNonEmptyOrAbsent ==
    (IsFacadeCall /\ ~raised) => (result = None \/ result \in Texts)

\* C11: constructing UltimaSystem never raises, whatever probes fail; all
\* five adapters are constructed, and each adapter's available flag is what
\* that adapter's own probe gives in this environment, whatever happened to
\* its siblings.
C11_ConstructionNeverRaises ==
    op = "UltimaSystem" =>
        /\ ~raised
        /\ result.constructed = Providers
        /\ available["ollama"] = args.env.ollamaPkg
        /\ available["dolphin"] = args.env.dolphinPath
        /\ \A p \in Hosted :
               /\ ~args.env.sdk[p] => ~available[p]
               /\ available[p] = AdapterInit(p, NoKey, args.env).available
        /\ credentials = LoadCredentials(args.env)

\* C11 witness: UltimaSystem() has run where the Ollama package is missing
\* and the Gemini key is missing, while OpenAI's probe succeeds
C11_Witness ==
    /\ op = "UltimaSystem"
    /\ ~args.env.ollamaPkg
    /\ args.env.sdk["gemini"] /\ ~available["gemini"]
    /\ ~args.env.credFile.parses
    /\ available["openai"]
    /\ result.constructed = Providers

\* C12: after construction no operation, succeeding or failing, changes any
\* adapter's available flag or the loaded credentials.
C12_FlagsAndCredentialsFrozen ==
    [][available' = available /\ credentials' = credentials]_vars

\* C12 witness: a generate call on an available adapter has failed, and the
\* adapter is still available
C12_Witness ==
    /\ op = "adapter_generate"
    /\ args.backend = Raise
    /\ result = None
    /\ available[args.adapter]

\* the priority order the claim names
ClaimedOrder == <<"claude", "openai", "gemini", "ollama">>

\* provider p's backend answered this auto call with nothing usable
AnsweredNothing(p) ==
    /\ p \in Range(sdkCalls)
    /\ args.backend[p] \notin Texts

\* the position of a provider in the claimed order
RankOf(p) == CHOOSE i \in 1..Len(ClaimedOrder) : ClaimedOrder[i] = p

\* C13: in auto mode backends are called one after another in the order
\* claude, openai, gemini, ollama: a backend is called only after every
\* earlier provider was unavailable or was called and returned absent or
\* empty, no backend is called twice, and the providers called and the
\* result are determined by the availability set and the backend responses.
C13_AutoSequentialInOrder ==
    IsAutoCall =>
        /\ \A i, j \in 1..Len(sdkCalls) :
               i < j => RankOf(sdkCalls[i]) < RankOf(sdkCalls[j])
        /\ \A i \in 1..Len(invoked) : invoked[i] = ClaimedOrder[i]
        /\ \A p \in Range(sdkCalls) :
               \A k \in 1..(RankOf(p) - 1) :
                   \/ ~available[ClaimedOrder[k]]
                   \/ AnsweredNothing(ClaimedOrder[k])
        /\ \A p \in GenProviders :
               (/\ available[p]
                /\ ~(p = "ollama" /\ "model" \in args.kwargs)
                /\ \A k \in 1..(RankOf(p) - 1) :
                       \/ ~available[ClaimedOrder[k]]
                       \/ args.backend[ClaimedOrder[k]] \notin Texts)
               => p \in Range(sdkCalls)
        /\ (~raised /\ result # None) =>
               /\ sdkCalls # <<>>
               /\ result = args.backend[sdkCalls[Len(sdkCalls)]]

\* C13 witness: an auto call went through claude and openai, which answered
\* nothing usable, and returned gemini's text without reaching ollama
C13_Witness ==
    /\ IsAutoCall
    /\ sdkCalls = <<"claude", "openai", "gemini">>
    /\ available["ollama"]
    /\ result = args.backend["gemini"]
    /\ result \in Texts

\* C14: status_report returns an entry for each of the five adapters with
\* the adapter's current flag; metadata is non-empty only for an available
\* adapter; the model list is queried from the backend on every call when
\* Ollama is available and never otherwise, and a failing query gives the
\* empty list, not an exception.
C14_StatusReportFresh ==
    op = "status_report" =>
        /\ ~raised
        /\ DOMAIN result.integrations = Providers
        /\ \A p \in Providers :
               result.integrations[p].available = available[p]
        /\ result.integrations["ollama"].models # <<>> => available["ollama"]
        /\ result.integrations["dolphin"].path # None => available["dolphin"]
        /\ \A p \in Hosted :
               result.integrations[p].model # None => available[p]
        /\ available["ollama"] =>
               /\ sdkCalls = <<"ollama">>
               /\ result.integrations["ollama"].models =
                      (IF args.list.kind = "ok" THEN args.list.models
                                                ELSE <<>>)
        /\ ~available["ollama"] => sdkCalls = <<>>

\* C14 witness: a status report on a system with Ollama available and
\* Gemini not, whose model-list query raised
C14_Witness ==
    /\ op = "status_report"
    /\ available["ollama"] /\ ~available["gemini"]
    /\ args.list.kind = "raise"
    /\ result.integrations["ollama"].models = <<>>

\* the key sources of a hosted adapter, in the order the claim gives
SourceNames(p) ==
    IF p = "openai" THEN <<"arg", "env", "keyfile", "dotenv">>
                    ELSE <<"arg", "env", "dotenv">>

\* the environment variables of a hosted adapter, in the order they are read
VarOrder(p) ==
    CASE p = "gemini" -> <<"GEMINI_API_KEY", "GOOGLE_API_KEY">>
      [] p = "claude" -> <<"ANTHROPIC_API_KEY">>
      [] p = "openai" -> <<"OPENAI_API_KEY">>

\* the first non-empty key of a sequence of keys, NoKey if there is none
RECURSIVE FirstNonEmpty(_)
FirstNonEmpty(keys) ==
    IF keys = <<>> THEN NoKey
    ELSE IF Head(keys) # NoKey THEN Head(keys)
    ELSE FirstNonEmpty(Tail(keys))

\* the key one source yields in the environment of the constructor call
SourceValue(p, name) ==
    CASE name = "arg" -> args.api_key
      [] name = "env" ->
           FirstNonEmpty([i \in 1..Len(VarOrder(p)) |->
                             EnvGet(args.env, VarOrder(p)[i])])
      [] name = "keyfile" ->
           IF args.env.keyFile.exists
           THEN Strip(args.env.keyFile.text, Whitespace) ELSE NoKey
      [] name = "dotenv" ->
           IF args.env.dotenv.exists
           THEN FirstMatch(args.env.dotenv.lines, KeyVars(p)) ELSE NoKey

ClaimedKey(p) ==
    FirstNonEmpty([i \in 1..Len(SourceNames(p)) |->
                      SourceValue(p, SourceNames(p)[i])])

\* C15: a hosted adapter uses the first non-empty key among the api_key
\* argument, the environment variables and the fallback files, in that
\* order; a later source is consulted only when every earlier one yields no
\* key; the adapter is available iff its SDK imports and some source yields
\* a non-empty key.
C15_KeyResolutionOrder ==
    (op = "adapter_init" /\ args.adapter \in Hosted) =>
        LET p == args.adapter
            names == SourceNames(p)
        IN  /\ available[p] <=> (args.env.sdk[p] /\ ClaimedKey(p) # NoKey)
            /\ available[p] => result.key = ClaimedKey(p)
            /\ \A i \in 1..Len(names) :
                   names[i] \in Range(result.consulted) =>
                       \A j \in 1..(i - 1) : SourceValue(p, names[j]) = NoKey

\* C16: with any number of generate_async calls in flight on one adapter
\* and any interleaving of their suspension points, each call returns what
\* a call on its own gives for the response to its own request (None when
\* the adapter is unavailable), and a step of one call changes nothing of
\* another call nor of the adapter.
C16_AsyncCallsIndependent ==
    /\ [](\A t \in Tasks :
            tasks[t].pc = "done" =>
                tasks[t].result = OllamaGenerateAsync(tasks[t].response).result)
    /\ [][/\ available' = available
          /\ \A t \in Tasks :
                 tasks'[t] # tasks[t] =>
                     \A u \in Tasks \ {t} : tasks'[u] = tasks[u]]_vars

\* C16 witness: the second call has returned the text of its own response
\* while the first call, started with another prompt, has its response
\* pending delivery
C16_Witness ==
    /\ tasks[1].pc = "responded"
    /\ tasks[1].response = "hello"
    /\ tasks[2].pc = "done"
    /\ tasks[2].response = "hi"
    /\ tasks[2].result = "hi"
    /\ tasks[1].prompt # tasks[2].prompt

\* number of times provider p occurs in a sequence of calls
Occurrences(seq, p) == Cardinality({i \in 1..Len(seq) : seq[i] = p})

\* C17: a facade call invokes each backend at most once; an auto call in
\* which no available provider returns non-empty text has invoked every
\* available provider exactly once in priority order, returns None and
\* reports that no provider is available.
C17_ExhaustedFallback ==
    IsFacadeCall =>
        /\ \A p \in GenProviders : Occurrences(sdkCalls, p) <= 1
        /\ (/\ args.provider = "auto"
            /\ \A p \in GenProviders :
                   available[p] => args.backend[p] \notin Texts) =>
               /\ \A p \in GenProviders :
                      available[p] => Occurrences(sdkCalls, p) = 1
               /\ \A i, j \in 1..Len(sdkCalls) :
                      i < j => RankOf(sdkCalls[i]) < RankOf(sdkCalls[j])
               /\ ~raised
               /\ result = None
               /\ NoProviderMsg \in log

\* the three entry points that run a Dolphin script
ScriptOps == {"run_script", "dolphin_command", "agent_watch"}

\* C18: run_script (and dolphin_command / agent_watch) returns None without
\* launching a subprocess when the adapter is unavailable or the script
\* file is missing, None when the launch raises, and otherwise the captured
\* standard output verbatim, whatever the exit code.
C18_RunScriptVerbatim ==
    op \in ScriptOps =>
        /\ ~raised
        /\ (~available["dolphin"] \/ ~args.scriptExists) =>
               (result = None /\ ~spawned)
        /\ (available["dolphin"] /\ args.scriptExists) =>
               /\ spawned
               /\ args.launch.raises => result = None
               /\ ~args.launch.raises => result = args.launch.stdout

\* C18 witness: a script has run, exited with a non-zero code, and its
\* output was returned
C18_Witness ==
    /\ op = "dolphin_command"
    /\ spawned
    /\ ~args.launch.raises
    /\ args.launch.exit = 1
    /\ args.launch.stdout = "hello"
    /\ result = "hello"

\* C19: on an unavailable Dolphin adapter create_idea returns None without
\* raising and without creating the temporary file.
C19_CreateIdeaUnavailable ==
    (op = "create_idea" /\ ~available["dolphin"]) =>
        (~raised /\ result = None /\ ~tempFile)

\* C20: GeminiIntegration.chat sends contents of the same length and order
\* as the history, with role "user" kept and every other role sent as
\* "model"; a history entry lacking role or content gives None, no exception.
C20_GeminiChatRoles ==
    (op = "adapter_chat" /\ args.adapter = "gemini" /\ available["gemini"]) =>
        /\ ~raised
        /\ (\A i \in 1..Len(args.messages) : MsgWellFormed(args.messages[i])) =>
               /\ sdkCalls = <<"gemini">>
               /\ Len(contents) = Len(args.messages)
               /\ \A i \in 1..Len(contents) :
                      /\ contents[i].text = args.messages[i].content
                      /\ args.messages[i].role = "user" =>
                             contents[i].role = "user"
                      /\ args.messages[i].role # "user" =>
                             contents[i].role = "model"
        /\ (\E i \in 1..Len(args.messages) : ~MsgWellFormed(args.messages[i])) =>
               (result = None /\ sdkCalls = <<>>)

\* C20 witness: a two-message history, user then assistant, has been sent as
\* user then model
C20_Witness ==
    /\ op = "adapter_chat"
    /\ args.adapter = "gemini"
    /\ Len(contents) = 2
    /\ args.messages[1].role = "user" /\ args.messages[2].role = "assistant"
    /\ contents[1].role = "user" /\ contents[2].role = "model"

=============================================================================
